---- MODULE Spec2Model ----
(***************************************************************************)
(* Receipt total extraction of church-budget: extract_amount_from_image    *)
(* (src/app.py 231-342).  The OCR response is the input; the text is a     *)
(* sequence of characters, one string per character.  Korean syllables are *)
(* written in romanised form because module strings are ASCII:             *)
(*   hap gye geum aek = 합계금액, won = 원, beon ho = 번호, ...            *)
(* An optional value is <<>> (None) or <<x>> (a value x).                  *)
(***************************************************************************)
EXTENDS Integers, Sequences, FiniteSets, TLC

VARIABLES response, pc, lines, keyword_candidates, candidate_line,
          amount, raw_text, path

vars == <<response, pc, lines, keyword_candidates, candidate_line,
          amount, raw_text, path>>

None == <<>>
Some(x) == <<x>>

\* ------------------------------------------------------------------ bounds
\* Lines per OCR text.
MaxLines == 3

\* Amounts on either side of 1,000 and of 1,000,000 in the texts that hold
\* one number.
FormatSpan == 12

\* --------------------------------------------------------------- constants
MinWon == 100
MaxWon == 99999999
MaxRun == 12

Digits == {"0", "1", "2", "3", "4", "5", "6", "7", "8", "9"}

DigitVal(c) ==
  CASE c = "0" -> 0 [] c = "1" -> 1 [] c = "2" -> 2 [] c = "3" -> 3
    [] c = "4" -> 4 [] c = "5" -> 5 [] c = "6" -> 6 [] c = "7" -> 7
    [] c = "8" -> 8 [] c = "9" -> 9

DigitChar(d) ==
  CASE d = 0 -> "0" [] d = 1 -> "1" [] d = 2 -> "2" [] d = 3 -> "3"
    [] d = 4 -> "4" [] d = 5 -> "5" [] d = 6 -> "6" [] d = 7 -> "7"
    [] d = 8 -> "8" [] d = 9 -> "9"

\* The whitespace characters of the model's alphabet.
Whitespace == {" ", "\t"}

\* total_keywords, in declaration order; priority = index - 1.
total_keywords ==
  << <<"hap", "gye", "geum", "aek">>,            \* 합계금액
     <<"hap", "gye", " ", "geum", "aek">>,       \* 합계 금액
     <<"chong", "hap", "gye">>,                  \* 총합계
     <<"chong", " ", "hap", "gye">>,             \* 총 합계
     <<"gyeol", "je", "geum", "aek">>,           \* 결제금액
     <<"gyeol", "je", " ", "geum", "aek">>,      \* 결제 금액
     <<"seung", "in", "geum", "aek">>,           \* 승인금액
     <<"seung", "in", " ", "geum", "aek">>,      \* 승인 금액
     <<"hap", "gye">>,                           \* 합계
     <<"hap", " ", "gye">>,                      \* 합 계
     <<"chong", "aek">>,                         \* 총액
     <<"chong", " ", "aek">>,                    \* 총 액
     <<"hap", "san">>,                           \* 합산
     <<"bat", "eul", "geum", "aek">>,            \* 받을금액
     <<"bat", "eul", " ", "geum", "aek">>,       \* 받을 금액
     <<"cheong", "gu", "geum", "aek">>,          \* 청구금액
     <<"cheong", "gu", " ", "geum", "aek">>,     \* 청구 금액
     <<"t", "o", "t", "a", "l">>,                \* total
     <<"a", "m", "o", "u", "n", "t">> >>         \* amount

exclude_keywords ==
  << <<"beon", "ho">>,      \* 번호
     <<"il", "si">>,        \* 일시
     <<"jong", "ryu">>,     \* 종류
     <<"gae", "wol">>,      \* 개월
     <<"sang", "ho">>,      \* 상호
     <<"ju", "so">>,        \* 주소
     <<"deung", "rok">>,    \* 등록
     <<"sang", "jeom">>,    \* 상점
     <<"jeong", "bo">> >>   \* 정보

\* ---------------------------------------------------------- string helpers
\* needle in hay
Contains(needle, hay) ==
  \E k \in 0..(Len(hay) - Len(needle)) :
     \A h \in 1..Len(needle) : hay[k + h] = needle[h]

\* s.replace(c, "")
Remove(s, c) == SelectSeq(s, LAMBDA x : x # c)

RECURSIVE LStrip(_)
LStrip(s) == IF s # <<>> /\ Head(s) \in Whitespace THEN LStrip(Tail(s)) ELSE s

RECURSIVE RStrip(_)
RStrip(s) ==
  IF s # <<>> /\ s[Len(s)] \in Whitespace THEN RStrip(SubSeq(s, 1, Len(s) - 1))
  ELSE s

\* s.strip()
Strip(s) == RStrip(LStrip(s))

\* line.strip().replace(" ", "")
Stripped(line) == Remove(Strip(line), " ")

\* full_text.split("\n")
RECURSIVE Split(_)
Split(s) ==
  IF \A k \in 1..Len(s) : s[k] # "\n" THEN <<s>>
  ELSE LET k == CHOOSE k \in 1..Len(s) :
                   s[k] = "\n" /\ \A h \in 1..(k - 1) : s[h] # "\n"
       IN <<SubSeq(s, 1, k - 1)>> \o Split(SubSeq(s, k + 1, Len(s)))

\* raw.isdigit()
IsDigit(raw) == raw # <<>> /\ \A k \in 1..Len(raw) : raw[k] \in Digits

\* int(raw) for a non-empty digit string.  The value is exact up to
\* 999,999,999; a larger one is kept at the first prefix above MaxWon, which
\* is above MaxWon as the exact value is (machine integers are 32 bits wide).
RECURSIVE IntAcc(_, _)
IntAcc(raw, acc) ==
  IF raw = <<>> THEN acc
  ELSE IF acc > MaxWon THEN acc
  ELSE IntAcc(Tail(raw), acc * 10 + DigitVal(Head(raw)))

int(raw) == IntAcc(raw, 0)

Max(S) == CHOOSE x \in S : \A y \in S : y <= x

SeqToSet(s) == {s[k] : k \in DOMAIN s}

\* The decimal digits of n, most significant first.
RECURSIVE DigitsOf(_)
DigitsOf(n) ==
  IF n < 10 THEN <<DigitChar(n)>>
  ELSE DigitsOf(n \div 10) \o <<DigitChar(n % 10)>>

\* Commas between groups of three digits, counted from the left.
RECURSIVE Group3FromLeft(_)
Group3FromLeft(ds) ==
  IF Len(ds) <= 3 THEN ds
  ELSE SubSeq(ds, 1, 3) \o <<",">> \o Group3FromLeft(SubSeq(ds, 4, Len(ds)))

\* Commas between groups of three digits, counted from the right.
RECURSIVE Group3(_)
Group3(ds) ==
  IF Len(ds) <= 3 THEN ds
  ELSE Group3(SubSeq(ds, 1, Len(ds) - 3)) \o <<",">>
       \o SubSeq(ds, Len(ds) - 2, Len(ds))

\* f"{val:,.0f}"
Format(val) == Group3(DigitsOf(val))

\* int(float(ocr_amount.replace(",", ""))), the reading of the amount by the
\* expense form.
default_amount(ocr_amount) == int(Remove(ocr_amount, ","))

\* ------------------------------------------------------------ the patterns
\* [\d,]
NumChars == Digits \cup {","}

IsNumChar(c) == c \in NumChars

\* The number of characters of [\d,] from position p on, at most MaxRun.
RECURSIVE NumRun(_, _, _)
NumRun(s, p, n) ==
  IF n < MaxRun /\ p + n <= Len(s) /\ IsNumChar(s[p + n])
  THEN NumRun(s, p, n + 1) ELSE n

\* won_pattern.finditer(text) from position p: group 1 of every match of
\* ([\d,]{1,12})(?:won)?, left to right, greedy, without overlap.
RECURSIVE won_pattern(_, _)
won_pattern(s, p) ==
  IF p > Len(s) THEN <<>>
  ELSE LET n == NumRun(s, p, 0)
           e == p + n
       IN IF n = 0 THEN won_pattern(s, p + 1)
          ELSE <<SubSeq(s, p, e - 1)>>
               \o won_pattern(s, IF e <= Len(s) /\ s[e] = "won" THEN e + 1 ELSE e)

\* won_with_suffix.search(line) from position p: group 1 of the leftmost
\* match of ([\d,]{1,12})won, the longest at that position; None without one.
RECURSIVE won_with_suffix(_, _)
won_with_suffix(s, p) ==
  IF p > Len(s) THEN None
  ELSE LET ns == {n \in 1..NumRun(s, p, 0) : p + n <= Len(s) /\ s[p + n] = "won"}
       IN IF ns # {} THEN Some(SubSeq(s, p, p + Max(ns) - 1))
          ELSE won_with_suffix(s, p + 1)

\* The range test with both limits off by one.
InRangeOffByOne(val) == MinWon - 1 <= val /\ val <= MaxWon + 1

\* 100 <= val <= 99_999_999
InRange(val) == MinWon <= val /\ val <= MaxWon

\* extract_won_amount(text)
RECURSIVE KeepAmounts(_)
KeepAmounts(groups) ==
  IF groups = <<>> THEN <<>>
  ELSE LET raw == Remove(Head(groups), ",")
           val == int(raw)
       IN (IF IsDigit(raw) /\ InRange(val) THEN <<val>> ELSE <<>>)
          \o KeepAmounts(Tail(groups))

extract_won_amount(text) == KeepAmounts(won_pattern(text, 1))

\* line_has_exclude(text)
line_has_exclude(text) ==
  \E k \in DOMAIN exclude_keywords : Contains(exclude_keywords[k], text)

\* ---------------------------------------------------------------- strategy 1
\* "hap gye geum aek" in stripped or "hap gye <space> geum aek" in
\* stripped.replace(" ", "")
HasTotalAmountKeyword(line) ==
  \/ Contains(total_keywords[1], Stripped(line))
  \/ Contains(total_keywords[2], Remove(Stripped(line), " "))

\* One won_with_suffix search of a line, then int() and the range test:
\* "amount" with the value, "ValueError" when int() is given no digit, and
\* "nomatch" when nothing matches or the first match is out of range.
SuffixSearch(line) ==
  LET m == won_with_suffix(line, 1)
      raw == Remove(m[1], ",")
      val == int(raw)
  IN IF m = None THEN [kind |-> "nomatch", val |-> 0]
     ELSE IF raw = <<>> THEN [kind |-> "ValueError", val |-> 0]
     ELSE IF InRange(val) THEN [kind |-> "amount", val |-> val]
     ELSE [kind |-> "nomatch", val |-> 0]

\* for j in range(i + 1, len(lines)): the first line from j on that ends the
\* call, by a return or by the exception.
RECURSIVE FollowingLines(_, _)
FollowingLines(ls, j) ==
  IF j > Len(ls) THEN [kind |-> "nomatch", val |-> 0]
  ELSE LET r == SuffixSearch(ls[j])
       IN IF r.kind # "nomatch" THEN r ELSE FollowingLines(ls, j + 1)

\* Strategy 1 without the search of the keyword line itself.
RECURSIVE Strategy1LoopBelowOnly(_, _)
Strategy1LoopBelowOnly(ls, i) ==
  IF i > Len(ls) THEN [kind |-> "miss", val |-> 0, at |-> "none"]
  ELSE IF ~HasTotalAmountKeyword(ls[i]) THEN Strategy1LoopBelowOnly(ls, i + 1)
  ELSE LET below == FollowingLines(ls, i + 1)
       IN IF below.kind # "nomatch"
          THEN [kind |-> below.kind, val |-> below.val, at |-> "following_line"]
          ELSE Strategy1LoopBelowOnly(ls, i + 1)

\* for i, line in enumerate(lines), from line i on.
RECURSIVE Strategy1Loop(_, _)
Strategy1Loop(ls, i) ==
  IF i > Len(ls) THEN [kind |-> "miss", val |-> 0, at |-> "none"]
  ELSE IF ~HasTotalAmountKeyword(ls[i]) THEN Strategy1Loop(ls, i + 1)
  ELSE LET same == SuffixSearch(ls[i])
           below == FollowingLines(ls, i + 1)
       IN IF same.kind # "nomatch"
          THEN [kind |-> same.kind, val |-> same.val, at |-> "same_line"]
          ELSE IF below.kind # "nomatch"
          THEN [kind |-> below.kind, val |-> below.val, at |-> "following_line"]
          ELSE Strategy1Loop(ls, i + 1)

\* ---------------------------------------------------------------- strategy 2
\* The hit line chosen without the exclusion test of the next line.
HitLineNoExclude(ls, i) ==
  IF extract_won_amount(ls[i]) # <<>> THEN i
  ELSE IF i + 1 <= Len(ls) /\ extract_won_amount(ls[i + 1]) # <<>> THEN i + 1
  ELSE 0

\* The line (1-based) whose numbers a keyword hit on line i records, 0 when
\* it records nothing: line i when it has amounts, else line i + 1 when it
\* exists and line_has_exclude(lines[i + 1]) is false.
HitLine(ls, i) ==
  IF extract_won_amount(ls[i]) # <<>> THEN i
  ELSE IF i + 1 <= Len(ls) /\ ~line_has_exclude(ls[i + 1])
          /\ extract_won_amount(ls[i + 1]) # <<>> THEN i + 1
  ELSE 0

\* The keyword loop left at the first keyword the line holds.
RECURSIVE KeywordLoopFirstOnly(_, _, _, _)
KeywordLoopFirstOnly(st, h, am, k) ==
  IF k > Len(total_keywords) THEN <<>>
  ELSE IF Contains(Remove(total_keywords[k], " "), st)
       THEN [n \in 1..Len(am) |-> [priority |-> k - 1, val |-> am[n], line |-> h]]
       ELSE KeywordLoopFirstOnly(st, h, am, k + 1)

\* for priority, kw in enumerate(total_keywords), from index k on: the
\* candidates appended for a line whose stripped copy is st and whose hit
\* line is number h with the amounts am.
RECURSIVE KeywordLoop(_, _, _, _)
KeywordLoop(st, h, am, k) ==
  IF k > Len(total_keywords) THEN <<>>
  ELSE (IF Contains(Remove(total_keywords[k], " "), st)
        THEN [n \in 1..Len(am) |->
                [priority |-> k - 1, val |-> am[n], line |-> h]]
        ELSE <<>>)
       \o KeywordLoop(st, h, am, k + 1)

\* The candidates line i appends.
LineCandidates(ls, i) ==
  LET st == Stripped(ls[i])
      h == HitLine(ls, i)
  IN IF line_has_exclude(st) \/ h = 0 THEN <<>>
     ELSE KeywordLoop(st, h, extract_won_amount(ls[h]), 1)

\* for i, line in enumerate(lines), from line i on: the candidates appended.
RECURSIVE Strategy2Loop(_, _)
Strategy2Loop(ls, i) ==
  IF i > Len(ls) THEN <<>>
  ELSE LineCandidates(ls, i) \o Strategy2Loop(ls, i + 1)

\* keyword_candidates.sort(key=lambda x: (x[0], -x[1])): insertion of c into
\* a sorted list, after the entries with an equal key.
RECURSIVE Insert(_, _)
Insert(c, sorted) ==
  IF sorted = <<>> THEN <<c>>
  ELSE LET h == Head(sorted)
       IN IF \/ h[1] < c[1]
             \/ (h[1] = c[1] /\ h[2] >= c[2])
          THEN <<h>> \o Insert(c, Tail(sorted))
          ELSE <<c>> \o sorted

RECURSIVE Sort(_)
Sort(cs) == IF cs = <<>> THEN <<>> ELSE Insert(cs[Len(cs)], Sort(SubSeq(cs, 1, Len(cs) - 1)))

\* The priority of the first candidate of the list as collected, unsorted.
best_priority_unsorted(cs) == cs[1][1]

\* best_priority = keyword_candidates[0][0], after the sort
best_priority(cs) == Sort(cs)[1][1]

\* best_group = [v for p, v in keyword_candidates if p == best_priority]
best_group(cs) == SelectSeq(cs, LAMBDA c : c[1] = best_priority(cs))

\* The maximum of all candidates, whatever their priority.
SelectedMaxOfAll(cs) == Max({c[2] : c \in SeqToSet(cs)})

\* max(best_group)
Selected(cs) == Max({c[2] : c \in SeqToSet(best_group(cs))})

\* -------------------------------------------------------------- the inputs
KW == total_keywords[1]

LineKeywordWon    == KW \o <<" ", "2", "7", ",", "1", "9", "0", "won">>
LineKeyword       == KW
LineKeywordPlain  == KW \o <<" ", "5", "0", "0", "0">>
LineKeywordComma  == KW \o <<" ", ",", "won">>
LineKeywordSmall  == KW \o <<" ", "5", "0", "won", " ", "3", ",", "0", "0", "0", "won">>
LineKeywordLong   == KW \o <<" ", "1", "0", "0", "0", "0", "0", "0", "0", "0",
                             "5", "0", "0", "0", "won">>
LineKeywordExcl   == KW \o <<" ", "seung", "in", "beon", "ho", " ",
                             "1", "2", "3", "4", "5">>
LineTotalWon      == <<"t", "o", "t", "a", "l", " ", "4", "5", "0", ",", "0", "0", "0",
                       "won">>
LineSumExclSpaced == <<"hap", "gye", " ", "beon", " ", "ho", " ", "7", "0", "0", "0">>
LineSumTwo        == <<"hap", "gye", " ", "1", "5", "0", "0", "0", " ",
                       "2", "3", "0", "0", "0">>
LinePhone         == <<"jeon", "hwa", "beon", "ho", ":", " ", "0", "1", "0", "-",
                       "1", "2", "3", "4", "-", "5", "6", "7", "8">>
LineNumbers       == <<"1", "5", "0", "0", " ", "2", "3", "0", "0", "0", " ",
                       "4", "5", "0", "0", "0", "0", "0", "0", "0">>
LineOutOfRange    == <<"9", "9", "won", " ", ",", ",", ",", " ",
                       "1", "0", "0", ",", "0", "0", "0", ",", "0", "0", "0", "won">>
LineEdges         == <<"1", "0", "0", "won", " ", "9", "9", ",", "9", "9", "9", ",",
                       "9", "9", "9">>
LineLongRun       == <<"1", "2", "3", "4", "5", "6", "7", "8", "9", "0",
                       "1", "2", "3", "4", "5", "6", "7", "8", "9", "0">>
LineBlank         == <<"\t", " ">>
LineApprovalWon   == <<"seung", "in", "beon", "ho", " ", "4", ",", "0", "0", "0", "won">>

LineLib ==
  { LineKeywordWon, LineKeyword, LineKeywordPlain, LineKeywordComma,
    LineKeywordSmall, LineKeywordLong, LineKeywordExcl, LineTotalWon,
    LineSumExclSpaced, LineSumTwo, LinePhone, LineNumbers, LineOutOfRange,
    LineEdges, LineLongRun, LineBlank, LineApprovalWon }

\* "\n".join(ls)
RECURSIVE Join(_)
Join(ls) ==
  IF Len(ls) = 1 THEN ls[1] ELSE ls[1] \o <<"\n">> \o Join(Tail(ls))

Texts == {Join(ls) : ls \in UNION {[1..n -> LineLib] : n \in 1..MaxLines}}

\* The responses of the recognition service: response.error.message set or
\* not, and full_text_annotation.text (None without an annotation).
Responses ==
  {[error |-> TRUE, full_text |-> None],
   [error |-> TRUE, full_text |-> Some(LineKeywordWon)],
   [error |-> FALSE, full_text |-> None],
   [error |-> FALSE, full_text |-> Some(<<>>)]}
  \cup {[error |-> FALSE, full_text |-> Some(t)] : t \in Texts}

\* ------------------------------------------------------------- the program
Init ==
  /\ response \in Responses
  /\ pc = "ocr"
  /\ lines = <<>>
  /\ keyword_candidates = <<>>
  /\ candidate_line = <<>>
  /\ amount = None
  /\ raw_text = None
  /\ path = "none"

\* return a, r
Return(a, r, by) ==
  /\ amount' = a
  /\ raw_text' = r
  /\ path' = by
  /\ pc' = "returned"

\* "not full_text.strip()": a text of whitespace counted as no text.
NoTextStripped(full_text) == full_text = None \/ Strip(full_text[1]) = <<>>

\* The value of "not full_text" for the annotation's text.
NoText(full_text) == full_text = None \/ full_text[1] = <<>>

\* Lines 246-253: the two returns without text, else the split into lines.
Recognize ==
  /\ pc = "ocr"
  /\ IF response.error
     THEN Return(None, None, "error") /\ UNCHANGED lines
     ELSE IF NoText(response.full_text)
     THEN Return(None, None, "no_text") /\ UNCHANGED lines
     ELSE /\ lines' = Split(response.full_text[1])
          /\ pc' = "strategy1"
          /\ UNCHANGED <<amount, raw_text, path>>
  /\ UNCHANGED <<response, keyword_candidates, candidate_line>>

\* Lines 293-309: a return, the ValueError of int(""), or on to strategy 2.
Strategy1 ==
  /\ pc = "strategy1"
  /\ \E r \in {Strategy1Loop(lines, 1)} :
        CASE r.kind = "amount" ->
               Return(Some(Format(r.val)), Some(response.full_text[1]), r.at)
          [] r.kind = "ValueError" ->
               /\ pc' = "raised"
               /\ path' = r.at
               /\ UNCHANGED <<amount, raw_text>>
          [] OTHER ->
               /\ pc' = "strategy2"
               /\ UNCHANGED <<amount, raw_text, path>>
  /\ UNCHANGED <<response, lines, keyword_candidates, candidate_line>>

\* Lines 312-329: the candidates of all lines; candidate_line keeps, for each
\* candidate, the line its number was read from.
Strategy2 ==
  /\ pc = "strategy2"
  /\ \E cs \in {Strategy2Loop(lines, 1)} :
        /\ keyword_candidates' = [n \in 1..Len(cs) |-> <<cs[n].priority, cs[n].val>>]
        /\ candidate_line' = [n \in 1..Len(cs) |-> cs[n].line]
  /\ pc' = "select"
  /\ UNCHANGED <<response, lines, amount, raw_text, path>>

\* Lines 331-335.
SelectCandidate ==
  /\ pc = "select"
  /\ IF keyword_candidates # <<>>
     THEN Return(Some(Format(Selected(keyword_candidates))),
                 Some(response.full_text[1]), "keyword")
     ELSE /\ pc' = "fallback"
          /\ UNCHANGED <<amount, raw_text, path>>
  /\ UNCHANGED <<response, lines, keyword_candidates, candidate_line>>

\* The fallback returning the first in-range token instead of the largest.
FallbackFirst ==
  /\ pc = "fallback"
  /\ \E fallback \in {extract_won_amount(response.full_text[1])} :
        IF fallback # <<>>
        THEN Return(Some(Format(fallback[1])),
                    Some(response.full_text[1]), "fallback")
        ELSE Return(None, Some(response.full_text[1]), "no_match")
  /\ UNCHANGED <<response, lines, keyword_candidates, candidate_line>>

\* Lines 337-342.
Fallback ==
  /\ pc = "fallback"
  /\ \E fallback \in {extract_won_amount(response.full_text[1])} :
        IF fallback # <<>>
        THEN Return(Some(Format(Max(SeqToSet(fallback)))),
                    Some(response.full_text[1]), "fallback")
        ELSE Return(None, Some(response.full_text[1]), "no_match")
  /\ UNCHANGED <<response, lines, keyword_candidates, candidate_line>>

Next ==
  \/ Recognize
  \/ Strategy1
  \/ Strategy2
  \/ SelectCandidate
  \/ Fallback

Spec == Init /\ [][Next]_vars

\* ------------------------------------------------- texts with one number
\* Amounts of every length from three to eight digits, at the limits of the
\* range, around the places where a comma appears, and with zeros inside.
FormatValues ==
  {100, 101, 999, 9999, 10000, 10001, 99999, 100000, 100100, 999999,
   1000001, 1001000, 9999999, 10000000, 10010010, 99999998, 99999999}
  \cup ((1000 - FormatSpan)..(1000 + FormatSpan))
  \cup ((1000000 - FormatSpan)..(1000000 + FormatSpan))

\* A text that is the number alone (returned by the fallback) and one that
\* is the number after the keyword (returned by the candidate selection).
FormatResponses ==
  {[error |-> FALSE, full_text |-> Some(DigitsOf(v))] : v \in FormatValues}
  \cup {[error |-> FALSE, full_text |-> Some(KW \o <<" ">> \o DigitsOf(v))] :
          v \in FormatValues}

InitFormat ==
  /\ response \in FormatResponses
  /\ pc = "ocr"
  /\ lines = <<>>
  /\ keyword_candidates = <<>>
  /\ candidate_line = <<>>
  /\ amount = None
  /\ raw_text = None
  /\ path = "none"

SpecFormat == InitFormat /\ [][Next]_vars

\* ------------------------------------------------------------- the claims
\* The text of the response and the integer the returned amount stands for.
Text == response.full_text[1]
AmountValue == default_amount(amount[1])
HasLine(l) == \E i \in DOMAIN lines : lines[i] = l

\* C1: on every return path the returned amount, when present, is an
\* integer between 100 and 99,999,999; 99 and 100,000,000 are never returned.
C1_AmountInRange ==
  (pc = "returned" /\ amount # None) =>
     /\ path \in {"same_line", "following_line", "keyword", "fallback"}
     /\ 100 <= AmountValue /\ AmountValue <= 99999999

\* C1 witness: the fallback returns the upper limit 99,999,999 from a text
\* that also holds the tokens 99 and 100,000,000.
C1_Witness ==
  /\ pc = "returned" /\ path = "fallback"
  /\ HasLine(LineOutOfRange) /\ HasLine(LineEdges)
  /\ amount = Some(Format(99999999))

\* C2: the extraction never raises, whatever the text: a malformed numeric
\* substring is discarded silently in every strategy.
C2_NeverRaises == pc # "raised"

\* C3: the text that is only the phone-number line yields no amount:
\* the result is (None, raw_text).
C3_PhoneLineNoAmount ==
  (pc = "returned" /\ response.full_text = Some(LinePhone)) =>
     (amount = None /\ raw_text = Some(LinePhone))

\* Line i holds total keyword number k (both without spaces).
MatchesKeyword(k, line) ==
  Contains(Remove(total_keywords[k], " "), Stripped(line))

AnyTotalKeyword(line) ==
  \E k \in DOMAIN total_keywords : MatchesKeyword(k, line)

Amounts(line) == SeqToSet(extract_won_amount(line))

\* The in-range tokens attached to a keyword on line i: those of the line,
\* or those of the next line when the line has none.
TokensAt(i) ==
  IF Amounts(lines[i]) # {} THEN Amounts(lines[i])
  ELSE IF i + 1 <= Len(lines) THEN Amounts(lines[i + 1]) ELSE {}

P0Tokens == UNION {TokensAt(i) : i \in {j \in DOMAIN lines : MatchesKeyword(1, lines[j])}}

LowerOnlyTokens ==
  UNION {TokensAt(i) : i \in {j \in DOMAIN lines :
                                 /\ ~MatchesKeyword(1, lines[j])
                                 /\ AnyTotalKeyword(lines[j])}}
  \ P0Tokens

\* The values of the candidates recorded under priority 0.
P0Candidates == {c[2] : c \in {d \in SeqToSet(keyword_candidates) : d[1] = 0}}

\* C4 as stated: with an in-range token attached to "hap gye geum aek" and
\* in-range tokens attached only to a lower-ranked keyword, the returned
\* amount is one of the priority-0 tokens.
C4_PriorityZeroAlwaysWins ==
  (pc = "returned" /\ P0Tokens # {} /\ LowerOnlyTokens # {}) =>
     (amount # None /\ AmountValue \in P0Tokens)

\* C4 amended: when strategy 2 has recorded a candidate under priority 0,
\* the result is chosen by the candidate selection and is the value of one
\* of the priority-0 candidates.
C4_PriorityZeroCandidateWins ==
  (pc = "returned" /\ P0Candidates # {}) =>
     (path = "keyword" /\ amount # None /\ AmountValue \in P0Candidates)

\* C4 witness: a "total" candidate larger than every priority-0 candidate,
\* carrying the won marker, and the priority-0 value 5,000 returned.
C4_Witness ==
  /\ pc = "returned"
  /\ P0Candidates # {}
  /\ \E c \in SeqToSet(keyword_candidates) :
        c[1] = 17 /\ \A v \in P0Candidates : c[2] > v
  /\ HasLine(LineTotalWon)
  /\ amount = Some(Format(5000))

\* Group 1 of every match of ([\d,]{1,12})won on a line, left to right.
RECURSIVE WonSuffixed(_, _)
WonSuffixed(s, p) ==
  IF p > Len(s) THEN <<>>
  ELSE IF \E n \in 1..12 :
            /\ p + n <= Len(s) /\ s[p + n] = "won"
            /\ \A h \in 0..(n - 1) : s[p + h] \in NumChars
       THEN LET n == CHOOSE n \in 1..12 :
                       /\ p + n <= Len(s) /\ s[p + n] = "won"
                       /\ \A h \in 0..(n - 1) : s[p + h] \in NumChars
            IN <<SubSeq(s, p, p + n - 1)>> \o WonSuffixed(s, p + n + 1)
       ELSE WonSuffixed(s, p + 1)

\* The in-range values of a list of matched groups.
GroupAmounts(groups) ==
  {int(Remove(g, ",")) : g \in {h \in SeqToSet(groups) :
      Remove(h, ",") # <<>> /\ 100 <= int(Remove(h, ",")) /\ int(Remove(h, ",")) <= 99999999}}

\* The in-range won-suffixed numbers of a line.
WonAmounts(line) == GroupAmounts(WonSuffixed(line, 1))

KeywordLines == {i \in DOMAIN lines : Contains(KW, Remove(lines[i], " "))}

FirstKeywordLine == CHOOSE i \in KeywordLines : \A j \in KeywordLines : i <= j

C6_ExcludedLineNeverContributes ==
  \A n \in DOMAIN candidate_line :
     ~(/\ AnyTotalKeyword(lines[candidate_line[n]])
       /\ line_has_exclude(Stripped(lines[candidate_line[n]])))

\* C7: the returned amount is an in-range token of the scanner applied to
\* the whole text; without such a token the returned amount is None.
C7_AmountIsScannerToken ==
  (pc = "returned" /\ lines # <<>> /\ amount # None) =>
     AmountValue \in Amounts(Text)

\* The lowest priority index among the candidates.
LowestPriority ==
  CHOOSE q \in {c[1] : c \in SeqToSet(keyword_candidates)} :
     \A c \in SeqToSet(keyword_candidates) : q <= c[1]

\* C8: when strategy 1 yields nothing and strategy 2 collected a candidate,
\* the result is the largest value among the candidates of the lowest
\* priority index present, never a larger candidate of a worse priority.
C8_MaxOfBestPriority ==
  (pc = "returned" /\ keyword_candidates # <<>>) =>
     /\ path = "keyword"
     /\ amount # None
     /\ \E c \in SeqToSet(keyword_candidates) :
           c[1] = LowestPriority /\ c[2] = AmountValue
     /\ \A c \in SeqToSet(keyword_candidates) :
           c[1] = LowestPriority => c[2] <= AmountValue

\* C8 witness: 15000 and 23000 at the best priority, a larger candidate at
\* a worse priority, and 23,000 returned.
C8_Witness ==
  /\ pc = "returned"
  /\ \E c \in SeqToSet(keyword_candidates) : c[1] = LowestPriority /\ c[2] = 15000
  /\ \E c \in SeqToSet(keyword_candidates) : c[1] = LowestPriority /\ c[2] = 23000
  /\ \E c \in SeqToSet(keyword_candidates) : c[1] > LowestPriority /\ c[2] > 23000
  /\ amount = Some(Format(23000))

NoKeywordLine == \A i \in DOMAIN lines : ~AnyTotalKeyword(lines[i])

\* C9: when no line holds a total keyword the result is the largest in-range
\* token of the whole text, and None when the text has no in-range token.
C9_FallbackMax ==
  (pc = "returned" /\ lines # <<>> /\ NoKeywordLine) =>
     IF Amounts(Text) = {} THEN amount = None /\ path = "no_match"
     ELSE /\ path = "fallback"
          /\ amount # None
          /\ AmountValue \in Amounts(Text)
          /\ \A v \in Amounts(Text) : v <= AmountValue

\* C9 witness: the tokens 1500, 23000 and 450000000 give 23,000.
C9_Witness ==
  /\ pc = "returned"
  /\ lines = <<LineNumbers>>
  /\ Amounts(Text) = {1500, 23000}
  /\ amount = Some(Format(23000))

\* The text the recognition step hands over: None when it reports an error.
UpstreamText == IF response.error THEN None ELSE response.full_text

\* C10: raw_text is None exactly when the upstream text is None or empty,
\* and then the amount is None; otherwise raw_text is the text unchanged.
C10_RawTextEcho ==
  pc = "returned" =>
     /\ (raw_text = None) <=> (UpstreamText = None \/ UpstreamText = Some(<<>>))
     /\ raw_text = None => amount = None
     /\ raw_text # None => raw_text = UpstreamText

\* C10 witness: a text of whitespace only comes back unchanged, without an
\* amount.
C10_Witness ==
  /\ pc = "returned"
  /\ response.full_text = Some(LineBlank)
  /\ raw_text = Some(LineBlank)
  /\ amount = None

\* The maximal runs of digits and commas of a text, of any length.
RECURSIVE MaximalRuns(_, _, _)
MaximalRuns(s, p, run) ==
  IF p > Len(s) THEN (IF run = <<>> THEN {} ELSE {run})
  ELSE IF s[p] \in NumChars THEN MaximalRuns(s, p + 1, Append(run, s[p]))
  ELSE (IF run = <<>> THEN {} ELSE {run}) \cup MaximalRuns(s, p + 1, <<>>)

\* Every number of the text is a run of digits alone with a value above
\* 99,999,999.
OnlyLongDigitRuns ==
  /\ MaximalRuns(Text, 1, <<>>) # {}
  /\ \A run \in MaximalRuns(Text, 1, <<>>) :
        (\A k \in DOMAIN run : run[k] \in Digits) /\ int(run) > 99999999

\* C11: a contiguous digit run with a value above 99,999,999 contributes no
\* candidate: the scanner takes no part of it as a token, so a text whose
\* only numbers are such runs yields no amount from strategy 2 or from the
\* fallback.
C11_LongRunNoAmount ==
  (/\ pc = "returned" /\ lines # <<>> /\ OnlyLongDigitRuns
   /\ path \notin {"same_line", "following_line"}) =>
     (Amounts(Text) = {} /\ amount = None)

\* The numbers a line can supply: its in-range scanner tokens and its
\* in-range won-suffixed matches.
NumbersOn(line) == Amounts(line) \cup WonAmounts(line)

\* C12 as stated, for strategy 1: the amount it returns is a number of a
\* line without exclusion keyword.
C12_ExcludedLineNeverReturned ==
  (pc = "returned" /\ path \in {"same_line", "following_line"}) =>
     \E i \in DOMAIN lines :
        /\ ~line_has_exclude(Stripped(lines[i]))
        /\ AmountValue \in NumbersOn(lines[i])

\* C12 amended: no strategy 2 candidate is read from a line whose text holds
\* an exclusion keyword, so the amount chosen by the candidate selection is a
\* token of a line without one.
C12_ExcludedLineNoCandidate ==
  /\ \A n \in DOMAIN candidate_line :
        ~line_has_exclude(lines[candidate_line[n]])
  /\ (pc = "returned" /\ path = "keyword") =>
        \E i \in DOMAIN lines :
           ~line_has_exclude(lines[i]) /\ AmountValue \in Amounts(lines[i])

\* C12 witness: a keyword line without number, followed by a line with a
\* total keyword, an exclusion keyword and the in-range number 12345, which
\* is passed over; 23,000 of the third line is returned.
C12_Witness ==
  /\ pc = "returned"
  /\ path = "keyword"
  /\ lines = <<LineKeyword, LineKeywordExcl, LineSumTwo>>
  /\ 12345 \in Amounts(lines[2])
  /\ amount = Some(Format(23000))

\* The digits of the only number of a text, and its value.
TextDigits == SelectSeq(Text, LAMBDA c : c \in Digits)

\* A string of digits and commas only, not starting with a comma or a zero,
\* whose commas are exactly the characters at every fourth place from the
\* right.
ThousandsGrouped(str) ==
  /\ str # <<>>
  /\ str[1] \in Digits \ {"0"}
  /\ \A k \in DOMAIN str :
        IF (Len(str) - k + 1) % 4 = 0 THEN str[k] = "," ELSE str[k] \in Digits

\* C13: the amount string is the thousands-grouped rendering of the selected
\* integer, digits and commas only, and removing the commas and parsing it
\* gives the selected integer back.
C13_FormatRoundTrip ==
  pc = "returned" =>
     /\ amount # None
     /\ ThousandsGrouped(amount[1])
     /\ Remove(amount[1], ",") = TextDigits
     /\ default_amount(amount[1]) = int(TextDigits)

\* C13 witness: the upper limit comes back as "99,999,999" and reads as
\* 99999999.
C13_Witness ==
  /\ pc = "returned"
  /\ path = "keyword"
  /\ amount = Some(<<"9", "9", ",", "9", "9", "9", ",", "9", "9", "9">>)
  /\ default_amount(amount[1]) = 99999999

\* The in-range values of a list of matched groups, in the order of the list.
GroupAmountSeq(groups) ==
  LET inrange == SelectSeq(groups, LAMBDA g :
                    /\ Remove(g, ",") # <<>>
                    /\ 100 <= int(Remove(g, ","))
                    /\ int(Remove(g, ",")) <= 99999999)
  IN [n \in DOMAIN inrange |-> int(Remove(inrange[n], ","))]

\* The in-range won-suffixed numbers of lines i.., in document order and
\* left to right within a line.
RECURSIVE WonAmountsFrom(_)
WonAmountsFrom(i) ==
  IF i > Len(lines) THEN <<>>
  ELSE GroupAmountSeq(WonSuffixed(lines[i], 1)) \o WonAmountsFrom(i + 1)

\* C14: when the first line holding "hap gye geum aek" has no in-range
\* won-suffixed number, the result is the first in-range won-suffixed number
\* of the lines below it, in document order and left to right; an
\* out-of-range won-suffixed number earlier on a line hides nothing.
C14_FirstInRangeBelow ==
  (/\ pc = "returned"
   /\ KeywordLines # {}
   /\ WonAmounts(lines[FirstKeywordLine]) = {}
   /\ WonAmountsFrom(FirstKeywordLine + 1) # <<>>) =>
     /\ amount # None
     /\ AmountValue = WonAmountsFrom(FirstKeywordLine + 1)[1]

\* An in-range won-suffixed number stands on or below a line holding
\* "hap gye geum aek".
WonOnOrBelowKeyword == \E i \in KeywordLines : WonAmountsFrom(i) # <<>>

\* C15: the first strategy that yields a value decides. The result comes
\* from strategy 1 exactly when an in-range won-suffixed number stands on or
\* below a "hap gye geum aek" line, from the candidate selection exactly
\* when none does and strategy 2 collected a candidate, and from the
\* fallback exactly when none does and strategy 2 collected none.
C15_StrategyOrder ==
  (pc = "returned" /\ path \notin {"error", "no_text"}) =>
     /\ path \in {"same_line", "following_line"} <=> WonOnOrBelowKeyword
     /\ path = "keyword" <=> (~WonOnOrBelowKeyword /\ keyword_candidates # <<>>)
     /\ path \in {"fallback", "no_match"} <=>
           (~WonOnOrBelowKeyword /\ keyword_candidates = <<>>)

\* Strategy 2 has gone through the lines.
Strategy2Done ==
  \/ pc \in {"select", "fallback"}
  \/ pc = "returned" /\ path \in {"keyword", "fallback", "no_match"}

\* A line holds an exclusion keyword, looked for in its copy without spaces.
HasExclusion(line) == line_has_exclude(Stripped(line))

\* The line a keyword hit on line i takes its tokens from by the proximity
\* rule, 0 for none: line i when it holds an in-range token, else line i + 1
\* when it exists and holds no exclusion keyword.
ProximityLine(i) ==
  IF Amounts(lines[i]) # {} THEN i
  ELSE IF i + 1 <= Len(lines) /\ ~HasExclusion(lines[i + 1]) THEN i + 1
  ELSE 0

\* What the hit of keyword k on line i records: priority, value, line read.
HitRecords(i, k) ==
  IF HasExclusion(lines[i]) \/ ~MatchesKeyword(k, lines[i]) \/ ProximityLine(i) = 0
  THEN <<>>
  ELSE LET tokens == extract_won_amount(lines[ProximityLine(i)])
       IN [n \in DOMAIN tokens |-> <<k - 1, tokens[n], ProximityLine(i)>>]

RECURSIVE ProximityRecords(_, _)
ProximityRecords(i, k) ==
  IF i > Len(lines) THEN <<>>
  ELSE IF k > Len(total_keywords) THEN ProximityRecords(i + 1, 1)
  ELSE HitRecords(i, k) \o ProximityRecords(i, k + 1)

\* The candidates of the state with the line each one was read from.
Recorded ==
  [n \in DOMAIN keyword_candidates |->
     <<keyword_candidates[n][1], keyword_candidates[n][2], candidate_line[n]>>]

\* C16: a keyword hit on line i records exactly the in-range tokens of
\* line i when it holds one, else those of line i + 1 when that line exists
\* and holds no exclusion keyword, under the priority of the keyword; a line
\* two or more below is never read and a hit on a last line without number
\* records nothing.
C16_ProximityRule ==
  Strategy2Done => Recorded = ProximityRecords(1, 1)

\* The lines strategy 2 takes as keyword lines, and the keywords of a line.
\* The total keywords without their spaces, and those a stripped line holds.
CleanKeywords == [k \in DOMAIN total_keywords |-> Remove(total_keywords[k], " ")]
KeywordsIn(st) == {k \in DOMAIN total_keywords : Contains(CleanKeywords[k], st)}
KeywordsOf(i) == UNION {KeywordsIn(st) : st \in {Stripped(lines[i])}}
HitLines ==
  {i \in DOMAIN lines : \E st \in {Stripped(lines[i])} :
                           ~line_has_exclude(st) /\ KeywordsIn(st) # {}}
Least(ks) == CHOOSE k \in ks : \A j \in ks : k <= j
BestKeyword(i) == Least(KeywordsOf(i))

\* The keyword lines that read a line, each with the line it reads and the
\* in-range tokens of that line.
Hits ==
  UNION {{[line |-> i, read |-> h, tokens |-> Amounts(lines[h])] :
             h \in {HitLine(lines, i)} \ {0}} : i \in HitLines}

\* The variant: every keyword line records the tokens it reads under its
\* best-ranked keyword only. Pairs of priority and value.
BestOnlyCandidates(hits) ==
  UNION {{<<BestKeyword(hit.line) - 1, v>> : v \in hit.tokens} : hit \in hits}

\* The selection applied to a set of pairs of priority and value.
SelectedOf(cs) ==
  LET best == Least({c[1] : c \in cs})
  IN Max({c[2] : c \in {d \in cs : d[1] = best}})

\* A hit is recorded under keyword k.
RecordedUnder(hit, k) ==
  \A v \in hit.tokens :
     \E n \in DOMAIN keyword_candidates :
        keyword_candidates[n] = <<k - 1, v>> /\ candidate_line[n] = hit.read

\* "hap gye geum aek" holds keywords 1, 2, 9 and 10 of the list ("hap gye
\* geum aek", "hap gye <space> geum aek", "hap gye", "hap <space> gye") and
\* "chong hap gye" holds 3, 4, 9 and 10.
SeveralKeywords ==
  /\ KeywordsIn(KW) = {1, 2, 9, 10}
  /\ KeywordsIn(<<"chong", "hap", "gye">>) = {3, 4, 9, 10}

\* C17: when strategy 2 has gone through the lines, a keyword line has
\* recorded the tokens it reads once under each keyword it holds, and the
\* outcome of strategy 2 (a candidate or none, and the value returned by the
\* selection) is that of the variant recording them under the line's
\* best-ranked keyword only.
C17_BestKeywordOnlyEquivalent ==
  /\ SeveralKeywords
  /\ pc = "select" =>
        \A hits \in {Hits} :
           /\ \A hit \in hits : \A k \in KeywordsOf(hit.line) : RecordedUnder(hit, k)
           /\ keyword_candidates = <<>> <=> BestOnlyCandidates(hits) = {}
  /\ (pc = "returned" /\ path = "keyword") =>
        AmountValue = SelectedOf(BestOnlyCandidates(Hits))

\* C17 witness: a "total" line, a "hap gye" line recorded under two keywords
\* and a "hap gye geum aek" line recorded under four, with 5,000 returned.
C17_Witness ==
  /\ pc = "returned"
  /\ path = "keyword"
  /\ lines = <<LineTotalWon, LineSumTwo, LineKeywordPlain>>
  /\ Cardinality(KeywordsOf(3)) = 4
  /\ Len(keyword_candidates) > Cardinality(BestOnlyCandidates(Hits))
  /\ amount = Some(<<"5", ",", "0", "0", "0">>)

====
